---- MODULE Spec2Model ----
(***************************************************************************)
(* Model of append_url_to_sql/models.py (Python 2, Django): the cursor     *)
(* wrapper LoggingCursorWrapper.execute, which walks the call stack for a  *)
(* local `sql_query_tag` or a local `request`, embeds what it finds into   *)
(* the SQL text as a comment and delegates to the wrapped cursor.          *)
(*                                                                         *)
(* Text is a sequence of one-character strings.  A Python value is a       *)
(* record [kind, chars, n]: None, a byte string (str), a unicode string    *)
(* or an integer.                                                          *)
(***************************************************************************)
EXTENDS Integers, Sequences, FiniteSets

\* ------------------------------------------------------------------ bounds

\* Longest generated tag / request path, in characters.
MaxLen == 2

\* Deepest generated chain of calling frames above execute's own frame.
MaxDepth == 2

\* ------------------------------------------------------------ Python values

NoneVal == [kind |-> "None", chars |-> <<>>, n |-> 0]

PyStr(t) == [kind |-> "str", chars |-> t, n |-> 0]

PyUnicode(t) == [kind |-> "unicode", chars |-> t, n |-> 0]

PyInt(k) == [kind |-> "int", chars |-> <<>>, n |-> k]

\* Python truthiness of None / a string, as `or` on line 91 tests it.
Truthy(v) == v.kind # "None" /\ v.chars # <<>>

\* Python `a or b`.
PyOr(a, b) == IF Truthy(a) THEN a ELSE b

\* Python slice s[lo:-1] of a text (lo >= 0), empty when nothing is left.
SliceToLast(s, lo) == SubSeq(s, lo + 1, Len(s) - 1)

DigitChars == <<"0", "1", "2", "3", "4", "5", "6", "7", "8", "9">>

RECURSIVE Digits(_)
Digits(k) == IF k < 10 THEN <<DigitChars[k + 1]>>
             ELSE Digits(k \div 10) \o <<DigitChars[(k % 10) + 1]>>

Chars(t) == {t[i] : i \in 1..Len(t)}

\* The quote repr() chooses for a string: double quotes only when the string
\* holds a single quote and no double quote.
ReprQuote(t) == IF "'" \in Chars(t) /\ "\"" \notin Chars(t) THEN "\"" ELSE "'"

\* repr()'s escaping of one character of the modelled alphabet.
ReprEscapeChar(c, q) == IF c = "\\" THEN <<"\\", "\\">>
                        ELSE IF c = q THEN <<"\\", q>>
                        ELSE <<c>>

RECURSIVE ReprEscape(_, _)
ReprEscape(t, q) == IF t = <<>> THEN <<>>
                    ELSE ReprEscapeChar(Head(t), q) \o ReprEscape(Tail(t), q)

\* Python 2 repr() of a value, as text.
Repr(v) ==
    CASE v.kind = "None"    -> <<"N", "o", "n", "e">>
      [] v.kind = "int"     -> Digits(v.n)
      [] v.kind = "str"     -> <<ReprQuote(v.chars)>>
                               \o ReprEscape(v.chars, ReprQuote(v.chars))
                               \o <<ReprQuote(v.chars)>>
      [] v.kind = "unicode" -> <<"u", ReprQuote(v.chars)>>
                               \o ReprEscape(v.chars, ReprQuote(v.chars))
                               \o <<ReprQuote(v.chars)>>

\* Python str.replace(old, new) for a one-character `old`.
RECURSIVE Replace(_, _, _)
Replace(t, old, new) ==
    IF t = <<>> THEN <<>>
    ELSE (IF Head(t) = old THEN new ELSE <<Head(t)>>) \o Replace(Tail(t), old, new)

\* ------------------------------------------------------------ the functions

\* The value of local `request`: absent, some object that is no HttpRequest,
\* or an HttpRequest; `path` is its path attribute.
NoRequest == [cls |-> "None", path |-> NoneVal]

OtherObject(p) == [cls |-> "Other", path |-> p]

HttpRequest(p) == [cls |-> "HttpRequest", path |-> p]

\* A frame's f_locals, reduced to the two names execute looks up.
Frame(tag, req) == [sql_query_tag |-> tag, request |-> req]

\* get_sql_query_tag without its `is not None` test.
get_sql_query_tag_unguarded(f_locals) ==
    PyStr(SliceToLast(Repr(f_locals.sql_query_tag), 1))

get_sql_query_tag(f_locals) ==
    LET message == f_locals.sql_query_tag
    IN  IF message.kind # "None" THEN PyStr(SliceToLast(Repr(message), 1)) ELSE message

get_request(f_locals) ==
    LET request == f_locals.request
    IN  IF request.cls = "HttpRequest"
        THEN PyStr(Replace(SliceToLast(Repr(request.path), 2), "%", <<"%", "%">>))
        ELSE NoneVal

\* normalize_message without the replacement of "*".
normalize_message_keeps_star(msg) ==
    Replace(msg, "%", <<"%", "%">>)

\* normalize_message escaping "*" with a backslash instead of replacing it.
normalize_message_escapes_star(msg) ==
    Replace(Replace(msg, "*", <<"\\", "*">>), "%", <<"%", "%">>)

normalize_message(msg) ==
    Replace(Replace(msg, "*", <<"_">>), "%", <<"%", "%">>)

\* Python's `format_string % {'sql': ..., 'msg': ...}`: a format string is text
\* in which "%(sql)s" and "%(msg)s" are single conversion tokens.
RECURSIVE PyFormat(_, _)
PyFormat(fmt, d) ==
    IF fmt = <<>> THEN <<>>
    ELSE (CASE Head(fmt) = "%(sql)s" -> d.sql
            [] Head(fmt) = "%(msg)s" -> d.msg
            [] OTHER                 -> <<Head(fmt)>>) \o PyFormat(Tail(fmt), d)

MYSQL == "django.db.backends.mysql"

SQLITE3 == "django.db.backends.sqlite3"

sql_format_strings ==
    [k \in {MYSQL, SQLITE3} |->
        IF k = MYSQL
        THEN <<"/", "*", " ", "%(msg)s", " ", "*", "/", " ", "%(sql)s", " ">>
        ELSE <<"%(sql)s", " ", "/", "*", " ", "%(msg)s", " ", "*", "/">>]

DEFAULT_FORMAT_STRING == <<"%(sql)s">>

\* dict.get(key, None) on sql_format_strings; None is the empty (falsy) text.
FormatStringGet(key) ==
    IF key \in DOMAIN sql_format_strings THEN sql_format_strings[key] ELSE <<>>

\* format_string with a trailing comment as the default format.
format_string_annotating_default(engine_id) ==
    IF FormatStringGet(engine_id) # <<>> THEN FormatStringGet(engine_id)
    ELSE sql_format_strings[SQLITE3]

\* Line 93: the engine's format string, or the default when there is none.
format_string(engine_id) ==
    IF FormatStringGet(engine_id) # <<>> THEN FormatStringGet(engine_id)
    ELSE DEFAULT_FORMAT_STRING

\* Line 94: the annotated statement.
Annotated(s, message, engine_id) ==
    PyFormat(format_string(engine_id),
             [sql |-> s, msg |-> normalize_message(message.chars)])

\* DelegateCall that does not forward *args.
DelegateCall_drops_args(cls, s, a) ==
    [target |-> IF cls = "CursorDebugWrapper"
                THEN "CursorDebugWrapper.execute" ELSE "cursor.execute",
     sql |-> s, args |-> <<>>]

\* Line 98: which execute is called, with which statement and arguments.
DelegateCall(cls, s, a) ==
    [target |-> IF cls = "CursorDebugWrapper"
                THEN "CursorDebugWrapper.execute" ELSE "cursor.execute",
     sql |-> s, args |-> a]

\* ------------------------------------------------------------------ inputs

Alphabet == {"a", "/", "*", "%", "\\"}

Texts(len) == UNION {[1..k -> Alphabet] : k \in 0..len}

LOGIN == <<"/", "l", "o", "g", "i", "n">>

A_STAR_B_PCT_C == <<"a", "*", "b", "%", "c">>

SELECT_1 == <<"S", "E", "L", "E", "C", "T", " ", "1">>

\* "/**/%s": a statement that holds a comment of its own and a placeholder.
COMMENTED_QUERY == <<"/", "*", "*", "/", "%", "s">>

\* settings_dict has no 'ENGINE' key (settings_dict.get gives None).
ENGINE_None == "<None>"

Engines == {MYSQL, SQLITE3, "django.db.backends.postgresql_psycopg2",
            "mysql", "sqlite3", ENGINE_None}

\* execute(sql) and execute(sql, params).
Statements == {<<SELECT_1, <<>>>>, <<COMMENTED_QUERY, <<"params">>>>}

CursorClasses == {"CursorDebugWrapper", "DatabaseCursor"}

\* Frames of one caller holding a tag or a request of every text up to MaxLen.
MessageTags == {PyStr(t) : t \in Texts(MaxLen) \cup {LOGIN, A_STAR_B_PCT_C}}
               \cup {PyUnicode(t) : t \in Texts(MaxLen)}

MessageRequests == {HttpRequest(PyUnicode(t)) : t \in Texts(MaxLen)}

MessageFrames == {Frame(t, NoRequest) : t \in MessageTags}
                 \cup {Frame(NoneVal, r) : r \in MessageRequests}

\* Frames of the deeper stacks: every combination of a few tags and requests.
WalkTags == {NoneVal, PyStr(<<>>), PyStr(<<"a", "*">>), PyUnicode(<<>>),
             PyInt(7), PyInt(123)}

WalkRequests == {NoRequest, OtherObject(PyUnicode(<<"/">>)),
                 HttpRequest(PyStr(<<>>)), HttpRequest(PyUnicode(<<"/", "%">>))}

WalkFrames == {Frame(t, r) : t \in WalkTags, r \in WalkRequests}

\* The frames above execute, innermost first.
CallerStacks == {<<fr>> : fr \in MessageFrames}
                \cup UNION {[1..d -> WalkFrames] : d \in 0..MaxDepth}

\* execute's own frame: its locals are self, sql, args, f, f_locals, ...
ExecuteFrame == Frame(NoneVal, NoRequest)

\* ------------------------------------------------------------------- state

VARIABLES
    stack,        \* the frames sys._getframe() reaches, innermost first
    engine,       \* self.db.settings_dict.get('ENGINE', None)
    cursor_class, \* self.cursor.__class__
    args,         \* execute's *args
    sql_in,       \* the sql execute received
    sql,          \* execute's local sql
    f,            \* index of the frame f in stack; 0 is None
    log_message,  \* execute's local log_message
    pc,           \* "walk", "call", "returned", "raised"
    visited,      \* the frames the loop body has run on, in order
    src,          \* which lookup gave log_message: "none", "tag", "request"
    embedded,     \* the msg value passed to the format string
    calls,        \* the calls made to the underlying execute
    delegated,    \* what the underlying execute did: returned or raised what
    result        \* what execute's caller observes

vars == <<stack, engine, cursor_class, args, sql_in, sql, f, log_message, pc,
          visited, src, embedded, calls, delegated, result>>

Nothing == [kind |-> "none", value |-> "none"]

Init ==
    /\ stack \in {<<ExecuteFrame>> \o c : c \in CallerStacks}
    /\ engine \in Engines
    /\ cursor_class \in CursorClasses
    /\ \E st \in Statements : sql_in = st[1] /\ sql = st[1] /\ args = st[2]
    /\ f = 1
    /\ log_message = NoneVal
    /\ pc = "walk"
    /\ visited = <<>>
    /\ src = "none"
    /\ embedded = <<>>
    /\ calls = <<>>
    /\ delegated = Nothing
    /\ result = Nothing

\* f.f_back of frame i: the next frame outward, None (0) past the outermost.
f_back(i) == IF i < Len(stack) THEN i + 1 ELSE 0

\* Line 91.
Lookup(f_locals) == PyOr(get_sql_query_tag(f_locals), get_request(f_locals))

\* Line 89: `while f` holds, the loop body runs on frame f.
InLoop == pc = "walk" /\ f # 0

\* Line 92: `log_message is not None` on frame f.
Found == Lookup(stack[f]).kind # "None"

\* Lines 89-95: the loop body on a frame that yields a message; annotate, break.
Annotate ==
    /\ InLoop
    /\ Found
    /\ log_message' = Lookup(stack[f])
    /\ sql' = Annotated(sql, Lookup(stack[f]), engine)
    /\ embedded' = normalize_message(Lookup(stack[f]).chars)
    /\ src' = IF Truthy(get_sql_query_tag(stack[f])) THEN "tag" ELSE "request"
    /\ visited' = Append(visited, f)
    /\ pc' = "call"
    /\ UNCHANGED <<stack, engine, cursor_class, args, sql_in, f, calls,
                   delegated, result>>

\* Lines 89-92, 96: the loop body on a frame that yields nothing; go outward.
Advance ==
    /\ InLoop
    /\ ~Found
    /\ log_message' = Lookup(stack[f])
    /\ f' = f_back(f)
    /\ visited' = Append(visited, f)
    /\ UNCHANGED <<stack, engine, cursor_class, args, sql_in, sql, pc, src,
                   embedded, calls, delegated, result>>

\* Line 89: `while f` ends past the outermost frame.
ExitLoop ==
    /\ pc = "walk" /\ f = 0
    /\ pc' = "call"
    /\ UNCHANGED <<stack, engine, cursor_class, args, sql_in, sql, f,
                   log_message, visited, src, embedded, calls, delegated, result>>

Rows == {"rows", "no rows"}

Errors == {"DatabaseError"}

\* Line 98: the underlying execute returns; execute returns its value.
DelegateReturns ==
    /\ pc = "call"
    /\ calls' = Append(calls, DelegateCall(cursor_class, sql, args))
    /\ \E r \in Rows :
          /\ delegated' = [kind |-> "return", value |-> r]
          /\ result' = [kind |-> "return", value |-> r]
    /\ pc' = "returned"
    /\ UNCHANGED <<stack, engine, cursor_class, args, sql_in, sql, f,
                   log_message, visited, src, embedded>>

\* Line 98: the underlying execute raises; nothing catches it.
DelegateRaises ==
    /\ pc = "call"
    /\ calls' = Append(calls, DelegateCall(cursor_class, sql, args))
    /\ \E e \in Errors :
          /\ delegated' = [kind |-> "raise", value |-> e]
          /\ result' = [kind |-> "raise", value |-> e]
    /\ pc' = "raised"
    /\ UNCHANGED <<stack, engine, cursor_class, args, sql_in, sql, f,
                   log_message, visited, src, embedded>>

Next == Annotate \/ Advance \/ ExitLoop \/ DelegateReturns \/ DelegateRaises

Spec == Init /\ [][Next]_vars

\* ------------------------------------------------------- what the claims use

Finished == pc \in {"returned", "raised"}

WalkOver == pc # "walk"

\* str(v): the whole string representation of a value.
StrOf(v) == IF v.kind = "int" THEN Digits(v.n) ELSE v.chars

HoldsTag(fr) == fr.sql_query_tag.kind # "None"

HoldsNonEmptyTag(fr) == HoldsTag(fr) /\ StrOf(fr.sql_query_tag) # <<>>

HoldsRequest(fr) == fr.request.cls = "HttpRequest"

Frames == 1..Len(stack)

\* The frames that offer a context: a non-empty tag or a request.
Offering == {i \in Frames : HoldsNonEmptyTag(stack[i]) \/ HoldsRequest(stack[i])}

Innermost(S) == CHOOSE i \in S : \A j \in S : i <= j

\* The frame the loop body ran on last.
LastVisited == visited[Len(visited)]

IsPrefix(a, b) == Len(a) <= Len(b) /\ SubSeq(b, 1, Len(a)) = a

Contains(t, part) ==
    \E i \in 1..(Len(t) - Len(part) + 1) : SubSeq(t, i, i + Len(part) - 1) = part

\* The number of comment terminators "*/" in a text.
Terminators(t) ==
    Cardinality({i \in 1..(Len(t) - 1) : t[i] = "*" /\ t[i + 1] = "/"})

\* Every maximal run of "%" in a text has even length.
PercentRunsEven(t) ==
    \A i \in 1..Len(t) : \A j \in i..Len(t) :
        (/\ \A k \in i..j : t[k] = "%"
         /\ (i = 1 \/ t[i - 1] # "%")
         /\ (j = Len(t) \/ t[j + 1] # "%"))
        => (j - i + 1) % 2 = 0

\* The sanitisation the specification describes, character by character.
SanitizedChar(c) == IF c = "*" THEN <<"_">>
                    ELSE IF c = "%" THEN <<"%", "%">>
                    ELSE <<c>>

RECURSIVE Sanitized(_)
Sanitized(t) == IF t = <<>> THEN <<>>
                ELSE SanitizedChar(Head(t)) \o Sanitized(Tail(t))

LeadingComment(s, m) ==
    <<"/", "*", " ">> \o m \o <<" ", "*", "/", " ">> \o s \o <<" ">>

TrailingComment(s, m) ==
    s \o <<" ", "/", "*", " ">> \o m \o <<" ", "*", "/">>

\* "/* /login */ SELECT 1 "
LOGIN_MYSQL ==
    <<"/", "*", " ", "/", "l", "o", "g", "i", "n", " ", "*", "/", " ",
      "S", "E", "L", "E", "C", "T", " ", "1", " ">>

\* "SELECT 1 /* a_b%%c */"
TAGGED_SQLITE ==
    <<"S", "E", "L", "E", "C", "T", " ", "1", " ", "/", "*", " ",
      "a", "_", "b", "%", "%", "c", " ", "*", "/">>

\* ------------------------------------------------------------------ claims

\* C1: the context is taken from the innermost frame that offers a non-empty
\* explicit tag or a request, and when that frame holds a non-empty explicit
\* tag the tag, not the request, is the source.
C1_InnermostExplicitTag ==
    (WalkOver /\ Offering # {}) =>
        /\ src # "none"
        /\ LastVisited = Innermost(Offering)
        /\ HoldsNonEmptyTag(stack[Innermost(Offering)]) => src = "tag"

\* C2: when no frame holds an explicit tag or an HttpRequest, the statement
\* stays the one execute received and that text is what the underlying
\* execute is called with, whatever the engine.
C2_NoContextUnchanged ==
    (\A i \in Frames : ~HoldsTag(stack[i]) /\ ~HoldsRequest(stack[i])) =>
        /\ sql = sql_in
        /\ src = "none"
        /\ \A c \in 1..Len(calls) : calls[c].sql = sql_in

C2_Witness ==
    /\ Finished
    /\ Len(stack) = 3
    /\ \A i \in Frames : ~HoldsTag(stack[i]) /\ ~HoldsRequest(stack[i])
    /\ stack[2].request.cls = "Other"
    /\ engine = MYSQL
    /\ Len(calls) = 1 /\ calls[1].sql = sql_in

\* C3: whenever a request with a non-empty path supplies the context, the
\* executed statement is the original SQL followed by something appended,
\* whatever the engine.
C3_UrlAppended ==
    (Finished /\ src = "request"
        /\ stack[LastVisited].request.path.chars # <<>>) =>
        /\ IsPrefix(sql_in, calls[1].sql)
        /\ Len(calls[1].sql) > Len(sql_in)

C5_SanitizedOnce ==
    /\ (/\ src = "tag"
        /\ stack[LastVisited].sql_query_tag.kind = "str"
        /\ "\\" \notin Chars(stack[LastVisited].sql_query_tag.chars))
          => embedded = Sanitized(stack[LastVisited].sql_query_tag.chars)
    /\ (/\ src = "request"
        /\ stack[LastVisited].request.path.kind = "unicode"
        /\ "\\" \notin Chars(stack[LastVisited].request.path.chars))
          => embedded = Sanitized(stack[LastVisited].request.path.chars)

\* C6: the embedded message holds no "*" and only even runs of "%", and the
\* annotation adds exactly one comment terminator to the statement.
C6_CommentNotEndedEarly ==
    src # "none" =>
        /\ "*" \notin Chars(embedded)
        /\ PercentRunsEven(embedded)
        /\ engine \in {MYSQL, SQLITE3}
              => Terminators(sql) = Terminators(sql_in) + 1

C6_Witness ==
    /\ WalkOver
    /\ src = "request"
    /\ Len(stack) = 2
    /\ stack[2].request.path = PyUnicode(<<"*", "/">>)
    /\ engine = MYSQL
    /\ sql_in = COMMENTED_QUERY

\* C7 as stated: normalising a message twice gives what normalising it once
\* gives.
C7_Idempotent ==
    log_message.kind # "None" =>
        normalize_message(normalize_message(log_message.chars))
            = normalize_message(log_message.chars)

\* C7 (amended): normalising twice equals normalising once exactly for the
\* messages that hold no "%"; a message with a "%" has each of them doubled
\* again by the second application.
C7_IdempotentWithoutPercent ==
    log_message.kind # "None" =>
        ("%" \notin Chars(log_message.chars)
            <=> normalize_message(normalize_message(log_message.chars))
                    = normalize_message(log_message.chars))

C7_Witness ==
    /\ WalkOver
    /\ log_message.chars = <<"a", "*">>
    /\ embedded = <<"a", "_">>

\* C8: the walk runs on each frame at most once, innermost outward; execute
\* then calls the underlying execute exactly once, CursorDebugWrapper's in
\* debug-cursor mode and the wrapped cursor's otherwise, with the statement
\* and the unchanged arguments; its caller gets the returned value or the
\* raised error of that call; and until then a step is always possible: the
\* loop body runs while a frame is left, and the call follows the loop.
C8_DelegatesOnce ==
    /\ \A i \in 1..Len(visited) : visited[i] = i /\ i <= Len(stack)
    /\ pc \in {"walk", "call"} => calls = <<>> /\ result = Nothing
    /\ Finished =>
          /\ Len(calls) = 1
          /\ calls[1].args = args
          /\ calls[1].sql = sql
          /\ calls[1].target = IF cursor_class = "CursorDebugWrapper"
                               THEN "CursorDebugWrapper.execute"
                               ELSE "cursor.execute"
          /\ result = delegated
          /\ (pc = "raised") = (delegated.kind = "raise")
    /\ Finished \/ InLoop \/ (pc = "walk" /\ f = 0) \/ pc = "call"
    /\ InLoop => f \in Frames /\ f = Len(visited) + 1

C8_Witness ==
    /\ pc = "raised"
    /\ Len(visited) = 3
    /\ src = "tag"
    /\ args = <<"params">>
    /\ cursor_class = "CursorDebugWrapper"
    /\ calls[1].args = <<"params">>

\* C9: the walk halts only at a frame with a non-empty tag or a non-empty
\* request path, and no statement is annotated with an empty message.
C9_NoEmptyAnnotation ==
    src # "none" =>
        /\ \/ (HoldsTag(stack[LastVisited])
                 /\ stack[LastVisited].sql_query_tag.chars # <<>>)
           \/ (HoldsRequest(stack[LastVisited])
                 /\ stack[LastVisited].request.path.chars # <<>>)
        /\ embedded # <<>>

\* C10: an integer tag is embedded as its whole decimal representation: the
\* walk halts at the frame holding it and the message is all of its digits.
C10_IntegerTagInFull ==
    WalkOver =>
        \A i \in 1..Len(visited) :
            stack[visited[i]].sql_query_tag.kind = "int" =>
                /\ i = Len(visited)
                /\ src = "tag"
                /\ embedded = Digits(stack[visited[i]].sql_query_tag.n)

====
